---------------------------- MODULE Spec2Model ----------------------------
(***************************************************************************)
(* CapNest backend (src/server.js; src/integrated-server.js carries the    *)
(* same three handlers, differing only in comments and in the encoding of  *)
(* the rupee sign inside string literals).                                 *)
(*                                                                         *)
(* One HTTP request is followed from its arrival to its response.  The     *)
(* handlers share no mutable state, so one request at a time shows every   *)
(* behaviour of a handler.                                                 *)
(*                                                                         *)
(* JavaScript values are tagged records.  A JavaScript string is the       *)
(* sequence of its lexemes (or characters): "not json" is <<"not","json">>.*)
(***************************************************************************)
EXTENDS Integers, Sequences, FiniteSets, TLC

----------------------------------------------------------------------------
(* JavaScript values *)

Undefined == [t |-> "undefined"]
Null      == [t |-> "null"]
NaN       == [t |-> "NaN"]
Bool(b)   == [t |-> "boolean", b |-> b]
Num(n)    == [t |-> "number", n |-> n]
Str(s)    == [t |-> "string", s |-> s]
Arr(a)    == [t |-> "array", items |-> a]
Obj(p)    == [t |-> "object", props |-> p]

\* A property name: the string with that one lexeme.
Key(name) == <<name>>

\* The property `name` of object o, undefined when o has no such property.
Get(o, name) ==
    IF o.t = "object" /\ Key(name) \in DOMAIN o.props
    THEN o.props[Key(name)] ELSE Undefined

\* An object literal { k1: v1, ... } given as a record.
Literal(r) == Obj([k \in {Key(n) : n \in DOMAIN r} |-> r[k[1]]])

----------------------------------------------------------------------------
(* Lexemes of the texts the chat service may reply with *)

NumberLexemes == {"80", "720"}

NumberValue(l) == CASE l = "80" -> 80 [] l = "720" -> 720

StringLexemes ==
    {"\"approvalProbability\"", "\"riskLevel\"", "\"recommendations\"",
     "\"suitableBanks\"", "\"Low\"", "\"ok\"", "\"X\""}

StringContent(l) ==
    CASE l = "\"approvalProbability\"" -> <<"approvalProbability">>
      [] l = "\"riskLevel\""           -> <<"riskLevel">>
      [] l = "\"recommendations\""     -> <<"recommendations">>
      [] l = "\"suitableBanks\""       -> <<"suitableBanks">>
      [] l = "\"Low\""                 -> <<"Low">>
      [] l = "\"ok\""                  -> <<"ok">>
      [] l = "\"X\""                   -> <<"X">>

----------------------------------------------------------------------------
(* JSON.parse, over the lexemes of the text *)

ParseOk(v, rest) == [ok |-> TRUE, val |-> v, rest |-> rest]
ParseFail        == [ok |-> FALSE, val |-> Undefined, rest |-> <<>>]

RECURSIVE ParseValue(_), ParseElements(_, _), ParseMembers(_, _)

\* value := null | true | false | number | string | array | object
ParseValue(toks) ==
    IF toks = <<>> THEN ParseFail
    ELSE LET h == Head(toks)
             r == Tail(toks)
         IN  CASE h = "null"  -> ParseOk(Null, r)
               [] h = "true"  -> ParseOk(Bool(TRUE), r)
               [] h = "false" -> ParseOk(Bool(FALSE), r)
               [] h \in NumberLexemes -> ParseOk(Num(NumberValue(h)), r)
               [] h \in StringLexemes -> ParseOk(Str(StringContent(h)), r)
               [] h = "[" -> IF r # <<>> /\ Head(r) = "]"
                             THEN ParseOk(Arr(<<>>), Tail(r))
                             ELSE ParseElements(r, <<>>)
               [] h = "{" -> IF r # <<>> /\ Head(r) = "}"
                             THEN ParseOk(Obj(<<>>), Tail(r))
                             ELSE ParseMembers(r, <<>>)
               [] OTHER -> ParseFail

\* elements := value ( "," value )* "]"
ParseElements(toks, acc) ==
    LET v == ParseValue(toks)
    IN  IF ~v.ok \/ v.rest = <<>> THEN ParseFail
        ELSE IF Head(v.rest) = "]"
             THEN ParseOk(Arr(Append(acc, v.val)), Tail(v.rest))
        ELSE IF Head(v.rest) = ","
             THEN ParseElements(Tail(v.rest), Append(acc, v.val))
        ELSE ParseFail

\* members := string ":" value ( "," string ":" value )* "}"
\* A repeated name keeps its last value.
ParseMembers(toks, props) ==
    IF Len(toks) < 2 \/ Head(toks) \notin StringLexemes \/ toks[2] # ":"
    THEN ParseFail
    ELSE LET name == StringContent(Head(toks))
             v    == ParseValue(Tail(Tail(toks)))
             next == [k \in DOMAIN props \cup {name} |->
                         IF k = name THEN v.val ELSE props[k]]
         IN  IF ~v.ok \/ v.rest = <<>> THEN ParseFail
             ELSE IF Head(v.rest) = "}"
                  THEN ParseOk(Obj(next), Tail(v.rest))
             ELSE IF Head(v.rest) = ","
                  THEN ParseMembers(Tail(v.rest), next)
             ELSE ParseFail

\* ToString of the argument of JSON.parse: null becomes the text null.
ToText(v) == IF v.t = "string" THEN v.s ELSE <<v.t>>

\* JSON.parse(v): [ok |-> TRUE, val |-> value], or ok = FALSE for a SyntaxError.
JSONparse(v) ==
    LET r == ParseValue(ToText(v))
    IN  IF r.ok /\ r.rest = <<>> THEN [ok |-> TRUE, val |-> r.val]
        ELSE [ok |-> FALSE, val |-> Undefined]

----------------------------------------------------------------------------
(* Comparison creditScore >= k: ToNumber of the left operand, false on NaN *)

ToNumber(v) ==
    CASE v.t = "number"  -> v
      [] v.t = "null"    -> Num(0)
      [] v.t = "boolean" -> Num(IF v.b THEN 1 ELSE 0)
      [] v.t = "string"  ->
           IF v.s = <<>> THEN Num(0)
           ELSE IF Len(v.s) = 1 /\ v.s[1] \in NumberLexemes
                THEN Num(NumberValue(v.s[1]))
           ELSE NaN
      [] OTHER -> NaN

GE(v, k) == LET n == ToNumber(v) IN n.t = "number" /\ n.n >= k

Truthy(v) ==
    CASE v.t \in {"undefined", "null", "NaN"} -> FALSE
      [] v.t = "boolean" -> v.b
      [] v.t = "number"  -> v.n # 0
      [] v.t = "string"  -> v.s # <<>>
      [] OTHER -> TRUE

\* a || b
Or(a, b) == IF Truthy(a) THEN a ELSE b

\* o?.name
OptGet(o, name) == IF o.t \in {"undefined", "null"} THEN Undefined ELSE Get(o, name)

\* a?.length
OptLength(a) ==
    CASE a.t = "array"  -> Num(Len(a.items))
      [] a.t = "string" -> Num(Len(a.s))
      [] OTHER -> Undefined

Min(a, b) == IF a <= b THEN a ELSE b

\* Faulty variant: the end index is taken as inclusive.
substringInclusive(s, n) == Str(SubSeq(s.s, 1, Min(n + 1, Len(s.s))))

\* s.substring(0, n)
substring(s, n) == Str(SubSeq(s.s, 1, Min(n, Len(s.s))))

\* Faulty variant: the end index is taken as inclusive.
sliceInclusive(a, n) == Arr(SubSeq(a.items, 1, Min(n + 1, Len(a.items))))

\* a.slice(0, n)
slice(a, n) == Arr(SubSeq(a.items, 1, Min(n, Len(a.items))))

----------------------------------------------------------------------------
(* POST /api/check-eligibility: the two fallback analyses *)

\* The default banks (written out twice in the handler, identically).
suitableBanks == Arr(<<Str(<<"HDFC Bank">>), Str(<<"SBI">>), Str(<<"ICICI Bank">>)>>)

\* Faulty variant: the top tier starts above 750 instead of at 750.
parseApprovalProbabilityStrict(creditScore) ==
    IF GE(creditScore, 751) THEN 90
    ELSE IF GE(creditScore, 700) THEN 75
    ELSE IF GE(creditScore, 650) THEN 55
    ELSE 35

\* The reply was not JSON: approvalProbability and riskLevel of the analysis.
parseApprovalProbability(creditScore) ==
    IF GE(creditScore, 750) THEN 90
    ELSE IF GE(creditScore, 700) THEN 75
    ELSE IF GE(creditScore, 650) THEN 55
    ELSE 35

parseRiskLevel(creditScore) ==
    IF GE(creditScore, 700) THEN "Low"
    ELSE IF GE(creditScore, 600) THEN "Medium"
    ELSE "High"

\* The call failed: approvalProbability and riskLevel of the analysis.
catchApprovalProbability(creditScore) ==
    IF GE(creditScore, 750) THEN 90
    ELSE IF GE(creditScore, 700) THEN 75
    ELSE IF GE(creditScore, 650) THEN 55
    ELSE 35

catchRiskLevel(creditScore) ==
    IF GE(creditScore, 700) THEN "Low"
    ELSE IF GE(creditScore, 600) THEN "Medium"
    ELSE "High"

\* Faulty variant: the fallback carries a canned text instead of the reply.
analysisCanned(aiResponse, creditScore) ==
    LET parsed == JSONparse(aiResponse)
    IN  IF parsed.ok THEN parsed.val
        ELSE Literal([approvalProbability |-> Num(parseApprovalProbability(creditScore)),
                      riskLevel           |-> Str(<<parseRiskLevel(creditScore)>>),
                      recommendations     |-> Str(<<"Based on your credit score and income, you have a good chance of approval.">>),
                      suitableBanks       |-> suitableBanks])

\* let analysis; try { analysis = JSON.parse(aiResponse) } catch (e) { analysis = {...} }
analysis(aiResponse, creditScore) ==
    LET parsed == JSONparse(aiResponse)
    IN  IF parsed.ok THEN parsed.val
        ELSE Literal([approvalProbability |-> Num(parseApprovalProbability(creditScore)),
                      riskLevel           |-> Str(<<parseRiskLevel(creditScore)>>),
                      recommendations     |-> aiResponse,
                      suitableBanks       |-> suitableBanks])

\* res.json(body): status 200 unless res.status(n) was called first.
resJson(status, body) == [status |-> status, body |-> body]

\* Faulty variant: the failure is passed on as a 500.
eligibilityCatch500(body, error) ==
    resJson(500, Literal([success |-> Bool(FALSE), error |-> Get(error, "message")]))

\* The handler's catch block.
eligibilityCatch(body, error) ==
    LET creditScore == Get(body, "creditScore")
    IN  resJson(200, Literal([
            success   |-> Bool(TRUE),
            analysis  |-> Literal([
                approvalProbability |-> Num(catchApprovalProbability(creditScore)),
                riskLevel           |-> Str(<<catchRiskLevel(creditScore)>>),
                recommendations     |-> Str(<<"Based on your credit score and income, you have a good chance of approval.">>),
                suitableBanks       |-> suitableBanks]),
            aiPowered |-> Bool(FALSE),
            error     |-> Get(error, "message")]))

\* new TypeError(...), thrown by result.choices[0].message when choices is empty.
TypeError == Literal([name    |-> Str(<<"TypeError">>),
                      message |-> Str(<<"Cannot read properties of undefined (reading 'message')">>)])

\* The try block from the resolved call on.
eligibilityTry(body, result) ==
    IF Len(result.choices) = 0 THEN eligibilityCatch(body, TypeError)
    ELSE LET aiResponse == result.choices[1].message.content
         IN  resJson(200, Literal([
                 success   |-> Bool(TRUE),
                 analysis  |-> analysis(aiResponse, Get(body, "creditScore")),
                 aiPowered |-> Bool(TRUE)]))

----------------------------------------------------------------------------
(* POST /api/analyze-document *)

\* pair => ({ key: ..., value: ..., confidence: ... })
mapPair(pair) ==
    Literal([key        |-> Or(OptGet(Get(pair, "key"), "content"), Str(<<>>)),
             value      |-> Or(OptGet(Get(pair, "value"), "content"), Str(<<>>)),
             confidence |-> Or(Get(pair, "confidence"), Num(0))])

\* a.map(mapPair)
mapPairs(a) == Arr([i \in 1..Len(a.items) |-> mapPair(a.items[i])])

\* extractedData, after the three extraction steps.
extractedData(file, result) ==
    LET content       == Get(result, "content")
        keyValuePairs == Get(result, "keyValuePairs")
    IN  Literal([
            documentType  |-> Get(file, "mimetype"),
            pages         |-> Or(OptLength(Get(result, "pages")), Num(0)),
            text          |-> IF Truthy(content) THEN substring(content, 1000)
                              ELSE Str(<<>>),
            keyValuePairs |-> IF Truthy(keyValuePairs)
                              THEN mapPairs(slice(keyValuePairs, 10))
                              ELSE Arr(<<>>),
            tables        |-> Arr(<<>>)])

\* The handler's catch block.
documentCatch(file, error) ==
    resJson(200, Literal([
        success   |-> Bool(TRUE),
        data      |-> Literal([
            documentType |-> Or(OptGet(file, "mimetype"), Str(<<"unknown">>)),
            pages        |-> Num(1),
            text         |-> Str(<<"Document received and validated">>),
            message      |-> Str(<<"Document appears clear and readable">>)]),
        aiPowered |-> Bool(FALSE),
        error     |-> Get(error, "message")]))

\* The try block from the resolved pollUntilDone() on.
documentTry(file, result) ==
    resJson(200, Literal([
        success   |-> Bool(TRUE),
        data      |-> extractedData(file, result),
        aiPowered |-> Bool(TRUE),
        message   |-> Str(<<"Document analyzed successfully">>)]))

\* Faulty variant: the check for a missing file is gone.
noDocumentUnchecked(file) == FALSE

\* if (!req.file) return res.status(400).json(...)
noDocument(file) == ~Truthy(file)

documentRejected ==
    resJson(400, Literal([success |-> Bool(FALSE),
                          error   |-> Str(<<"No document uploaded">>)]))

----------------------------------------------------------------------------
(* POST /api/loan-recommendations *)

recommendationsCatch(error) ==
    resJson(200, Literal([
        success         |-> Bool(TRUE),
        recommendations |-> Arr(<<Literal([
            loanType    |-> Str(<<"Personal Loan">>),
            reason      |-> Str(<<"Flexible and quick approval for general purposes">>),
            amountRange |-> Str(<<"₹50,000 - ₹25,00,000">>),
            benefits    |-> Arr(<<Str(<<"No collateral">>), Str(<<"Quick disbursement">>),
                                  Str(<<"Flexible tenure">>)>>)])>>),
        aiPowered       |-> Bool(FALSE)]))

recommendationsTry(result) ==
    IF Len(result.choices) = 0 THEN recommendationsCatch(TypeError)
    ELSE resJson(200, Literal([
             success         |-> Bool(TRUE),
             recommendations |-> result.choices[1].message.content,
             aiPowered       |-> Bool(TRUE)]))

----------------------------------------------------------------------------
(* Inputs: request bodies, uploaded files, upstream results and failures *)

ScoreMargin   == 5
MaxReplyLen   == 2
MaxPages      == 3
MaxPairs      == 12
MaxContentLen == 1002

CreditScores ==
    {Num(n) : n \in (600 - ScoreMargin)..(750 + ScoreMargin)}
    \cup {Num(-1), Num(0), Num(300), Num(900), Null, Bool(TRUE),
          Str(<<"720">>), Str(<<"abc">>), Str(<<>>)}

\* req.body after express.json(): an object, with or without creditScore.
Bodies == {Obj(<<>>)} \cup {Literal([creditScore |-> v]) : v \in CreditScores}

\* Bodies of POST /api/loan-recommendations; the handler reads them only to
\* build the prompt.
RecommendationBodies ==
    {Obj(<<>>),
     Literal([purpose |-> Str(<<"education">>), income |-> Num(50000),
              creditScore |-> Num(720)])}

\* req.file after upload.single('document').
Files ==
    {Undefined}
    \cup {Literal([mimetype |-> Str(<<m>>), buffer |-> Str(<<"bytes">>)]) :
            m \in {"application/pdf", "image/png"}}

ReplyAlphabet == {"{", "}", "[", "]", ":", ",", "null", "80", "\"riskLevel\"", "not"}

ReplySamples ==
    { <<"{", "\"approvalProbability\"", ":", "80", ",", "\"riskLevel\"", ":", "\"Low\"", ",",
        "\"recommendations\"", ":", "\"ok\"", ",", "\"suitableBanks\"", ":",
        "[", "\"X\"", "]", "}">>,
      <<"{", "\"approvalProbability\"", ":", "80", ",", "\"riskLevel\"", ":", "\"Low\"", "}">>,
      <<"{", "\"riskLevel\"", ":", "\"Low\"", ",", "\"riskLevel\"", ":", "null", "}">>,
      <<"{", "\"riskLevel\"", ":", "\"Low\"", ",", "}">>,
      <<"[", "80", ",", "\"ok\"", "]">>,
      <<"[", "80", ",", "]">>,
      <<"not", "json">>,
      <<"Approval", "probability", ":", "80">>,
      <<"{", "\"approvalProbability\"", ":", "80">> }

ReplyTexts ==
    ReplySamples
    \cup UNION {[1..n -> ReplyAlphabet] : n \in 0..MaxReplyLen}

\* What getChatCompletions resolves to: result.choices[0].message.content is
\* a string or null; choices may be empty.
ChatResults ==
    {[choices |-> <<>>]}
    \cup {[choices |-> <<[message |-> [content |-> c]]>>] :
            c \in {Str(text) : text \in ReplyTexts} \cup {Null}}

\* What a failed call rejects with: an Error with a message.
Errors ==
    {Literal([name |-> Str(<<"Error">>), message |-> Str(m)]) :
        m \in {<<"connect ECONNREFUSED">>, <<"Access denied due to invalid subscription key">>, <<>>}}

\* The text of a document: len characters.
Content(len) == [i \in 1..len |-> IF i % 7 = 0 THEN "b" ELSE "a"]

ContentLens == (0..2) \cup ((MaxContentLen - 4)..MaxContentLen)

\* The i-th key-value pair of a result; `missing` names the part it lacks.
\* confidence is in hundredths.
Pair(i, missing) ==
    LET key   == IF missing = "key.content" THEN Obj(<<>>)
                 ELSE Literal([content |-> Str(<<"key", ToString(i)>>)])
        value == IF missing = "value.content" THEN Obj(<<>>)
                 ELSE Literal([content |-> Str(<<"value", ToString(i)>>)])
        conf  == Num(80 + i)
    IN  CASE missing = "key"        -> Literal([value |-> value, confidence |-> conf])
          [] missing = "value"      -> Literal([key |-> key, confidence |-> conf])
          [] missing = "confidence" -> Literal([key |-> key, value |-> value])
          [] OTHER -> Literal([key |-> key, value |-> value, confidence |-> conf])

Missing == {"key", "value", "confidence", "key.content", "value.content"}

\* n pairs, the d-th lacking a part (d = 0: none does).
Pairs(n, d, missing) == Arr([i \in 1..n |-> Pair(i, IF i = d THEN missing ELSE "none")])

PagesOptions ==
    {Undefined}
    \cup {Arr([i \in 1..n |-> Literal([pageNumber |-> Num(i)])]) : n \in 0..MaxPages}

ContentOptions == {Undefined} \cup {Str(Content(n)) : n \in ContentLens}

PairsOptions ==
    {Undefined}
    \cup {Pairs(n, 0, "none") : n \in 0..MaxPairs}
    \cup UNION {{Pairs(n, d, m) : d \in 1..n, m \in Missing} : n \in 1..MaxPairs}

\* An object literal without the properties that are undefined.
Defined(r) == Obj([k \in {Key(n) : n \in {m \in DOMAIN r : r[m] # Undefined}} |-> r[k[1]]])

\* What pollUntilDone() resolves to.  The text and the pairs are extracted by
\* separate statements: every text is tried with few pairs, every list of
\* pairs with a short text.
DocumentResults ==
    {Defined([pages |-> p, content |-> c, keyValuePairs |-> k]) :
        p \in PagesOptions, c \in ContentOptions,
        k \in {Undefined, Pairs(2, 0, "none")}}
    \cup
    {Defined([pages |-> p, content |-> c, keyValuePairs |-> k]) :
        p \in PagesOptions, c \in {Undefined, Str(Content(2))},
        k \in PairsOptions}

----------------------------------------------------------------------------
(* One request *)

VARIABLES
    handler,    \* the route the request matched, "none" before it arrives
    pc,         \* where the handler is: listening, awaiting a call, done
    req,        \* [body, file] of the request
    outbound,   \* the calls to external services this request has started
    settled,    \* how each awaited call ended: [op, ok, val]
    responses   \* the responses sent, [status, body]

vars == <<handler, pc, req, outbound, settled, responses>>

Init ==
    /\ handler = "none"
    /\ pc = "listening"
    /\ req = [body |-> Undefined, file |-> Undefined]
    /\ outbound = <<>>
    /\ settled = <<>>
    /\ responses = <<>>

Call(service, op)    == [service |-> service, op |-> op]
Settled(op, ok, val) == [op |-> op, ok |-> ok, val |-> val]

\* POST /api/check-eligibility, up to the await of getChatCompletions.
CheckEligibility(body) ==
    /\ pc = "listening"
    /\ handler' = "check-eligibility"
    /\ req' = [body |-> body, file |-> Undefined]
    /\ outbound' = Append(outbound, Call("openai", "getChatCompletions"))
    /\ pc' = "awaitChat"
    /\ UNCHANGED <<settled, responses>>

EligibilityResolved(result) ==
    /\ pc = "awaitChat" /\ handler = "check-eligibility"
    /\ settled' = Append(settled, Settled("getChatCompletions", TRUE, result))
    /\ responses' = Append(responses, eligibilityTry(req.body, result))
    /\ pc' = "done"
    /\ UNCHANGED <<handler, req, outbound>>

\* Faulty variant: a failed call is tried once more before falling back.
EligibilityRejectedRetry(error) ==
    /\ pc = "awaitChat" /\ handler = "check-eligibility"
    /\ settled' = Append(settled, Settled("getChatCompletions", FALSE, error))
    /\ IF Len(outbound) < 2
       THEN /\ outbound' = Append(outbound, Call("openai", "getChatCompletions"))
            /\ UNCHANGED <<responses, pc>>
       ELSE /\ responses' = Append(responses, eligibilityCatch(req.body, error))
            /\ pc' = "done"
            /\ UNCHANGED outbound
    /\ UNCHANGED <<handler, req>>

EligibilityRejected(error) ==
    /\ pc = "awaitChat" /\ handler = "check-eligibility"
    /\ settled' = Append(settled, Settled("getChatCompletions", FALSE, error))
    /\ responses' = Append(responses, eligibilityCatch(req.body, error))
    /\ pc' = "done"
    /\ UNCHANGED <<handler, req, outbound>>

\* POST /api/loan-recommendations, up to the await of getChatCompletions.
LoanRecommendations(body) ==
    /\ pc = "listening"
    /\ handler' = "loan-recommendations"
    /\ req' = [body |-> body, file |-> Undefined]
    /\ outbound' = Append(outbound, Call("openai", "getChatCompletions"))
    /\ pc' = "awaitChat"
    /\ UNCHANGED <<settled, responses>>

RecommendationsResolved(result) ==
    /\ pc = "awaitChat" /\ handler = "loan-recommendations"
    /\ settled' = Append(settled, Settled("getChatCompletions", TRUE, result))
    /\ responses' = Append(responses, recommendationsTry(result))
    /\ pc' = "done"
    /\ UNCHANGED <<handler, req, outbound>>

RecommendationsRejected(error) ==
    /\ pc = "awaitChat" /\ handler = "loan-recommendations"
    /\ settled' = Append(settled, Settled("getChatCompletions", FALSE, error))
    /\ responses' = Append(responses, recommendationsCatch(error))
    /\ pc' = "done"
    /\ UNCHANGED <<handler, req, outbound>>

\* POST /api/analyze-document, up to the await of beginAnalyzeDocument.
\* req.file.buffer of a missing file throws a TypeError.
AnalyzeDocument(file) ==
    /\ pc = "listening"
    /\ handler' = "analyze-document"
    /\ req' = [body |-> Undefined, file |-> file]
    /\ IF noDocument(file)
       THEN /\ responses' = Append(responses, documentRejected)
            /\ pc' = "done"
            /\ UNCHANGED outbound
       ELSE IF file.t \in {"undefined", "null"}
       THEN /\ responses' = Append(responses, documentCatch(file, TypeError))
            /\ pc' = "done"
            /\ UNCHANGED outbound
       ELSE /\ outbound' = Append(outbound,
                                  Call("documentIntelligence", "beginAnalyzeDocument"))
            /\ pc' = "awaitBegin"
            /\ UNCHANGED responses
    /\ UNCHANGED settled

\* beginAnalyzeDocument resolved with the poller; poller.pollUntilDone() is awaited.
BeginAnalyzeResolved ==
    /\ pc = "awaitBegin"
    /\ settled' = Append(settled, Settled("beginAnalyzeDocument", TRUE, Undefined))
    /\ pc' = "awaitPoll"
    /\ UNCHANGED <<handler, req, outbound, responses>>

BeginAnalyzeRejected(error) ==
    /\ pc = "awaitBegin"
    /\ settled' = Append(settled, Settled("beginAnalyzeDocument", FALSE, error))
    /\ responses' = Append(responses, documentCatch(req.file, error))
    /\ pc' = "done"
    /\ UNCHANGED <<handler, req, outbound>>

PollResolved(result) ==
    /\ pc = "awaitPoll"
    /\ settled' = Append(settled, Settled("pollUntilDone", TRUE, result))
    /\ responses' = Append(responses, documentTry(req.file, result))
    /\ pc' = "done"
    /\ UNCHANGED <<handler, req, outbound>>

PollRejected(error) ==
    /\ pc = "awaitPoll"
    /\ settled' = Append(settled, Settled("pollUntilDone", FALSE, error))
    /\ responses' = Append(responses, documentCatch(req.file, error))
    /\ pc' = "done"
    /\ UNCHANGED <<handler, req, outbound>>

Next ==
    \/ \E body \in Bodies : CheckEligibility(body)
    \/ \E result \in ChatResults : EligibilityResolved(result)
    \/ \E error \in Errors : EligibilityRejected(error)
    \/ \E body \in RecommendationBodies : LoanRecommendations(body)
    \/ \E result \in ChatResults : RecommendationsResolved(result)
    \/ \E error \in Errors : RecommendationsRejected(error)
    \/ \E file \in Files : AnalyzeDocument(file)
    \/ BeginAnalyzeResolved
    \/ \E error \in Errors : BeginAnalyzeRejected(error)
    \/ \E result \in DocumentResults : PollResolved(result)
    \/ \E error \in Errors : PollRejected(error)

Spec == Init /\ [][Next]_vars

----------------------------------------------------------------------------
(* The properties checked *)

Done     == pc = "done" /\ Len(responses) = 1
Response == responses[1]
LastCall == settled[Len(settled)]

Has(o, name) == o.t = "object" /\ Key(name) \in DOMAIN o.props

\* The boundary table of the Credit Heuristic, for an integer score.
TableProbability(n) ==
    CASE n >= 750           -> 90
      [] n >= 700 /\ n < 750 -> 75
      [] n >= 650 /\ n < 700 -> 55
      [] n >= 600 /\ n < 650 -> 35
      [] n < 600            -> 35

TableRisk(n) ==
    CASE n >= 750           -> "Low"
      [] n >= 700 /\ n < 750 -> "Low"
      [] n >= 650 /\ n < 700 -> "Medium"
      [] n >= 600 /\ n < 650 -> "Medium"
      [] n < 600            -> "High"

ThreeBanks == Arr(<<Str(<<"HDFC Bank">>), Str(<<"SBI">>), Str(<<"ICICI Bank">>)>>)

CreditScore == Get(req.body, "creditScore")

\* The analysis carries the table's pair for an integer credit score.
PerTable(a) ==
    CreditScore.t = "number" =>
        /\ Get(a, "approvalProbability") = Num(TableProbability(CreditScore.n))
        /\ Get(a, "riskLevel") = Str(<<TableRisk(CreditScore.n)>>)

\* The chat call of an eligibility request was rejected.
EligibilityCallFailed ==
    handler = "check-eligibility" /\ settled # <<>> /\ ~LastCall.ok

\* The chat call of an eligibility request resolved with a reply text.
EligibilityReplied ==
    /\ handler = "check-eligibility" /\ settled # <<>> /\ LastCall.ok
    /\ LastCall.val.choices # <<>>

Reply == LastCall.val.choices[1].message.content

\* C1: when the chat call of an eligibility check fails, the handler answers
\* exactly once, with HTTP 200, success = true, aiPowered = false, the
\* failure's message as error, and an analysis with the table's
\* approvalProbability and riskLevel for the credit score, recommendations and
\* the three default banks.
C1_FailureStillAnswers ==
    EligibilityCallFailed =>
        /\ Done
        /\ Response.status = 200
        /\ Get(Response.body, "success") = Bool(TRUE)
        /\ Get(Response.body, "aiPowered") = Bool(FALSE)
        /\ Has(Response.body, "error")
        /\ Get(Response.body, "error") = LastCall.val.props[Key("message")]
        /\ LET a == Get(Response.body, "analysis")
           IN  /\ PerTable(a)
               /\ Get(a, "approvalProbability").t = "number"
               /\ Get(a, "riskLevel").t = "string"
               /\ Get(a, "recommendations").t = "string"
               /\ Get(a, "suitableBanks") = ThreeBanks

C1_Witness ==
    /\ EligibilityCallFailed /\ Done
    /\ CreditScore = Num(720)
    /\ LastCall.val.props[Key("message")] = Str(<<"connect ECONNREFUSED">>)
    /\ Get(Get(Response.body, "analysis"), "approvalProbability") = Num(75)

\* C2: for every integer credit score both fallbacks of the eligibility
\* handler (reply not JSON, call failed) give the pair of the boundary table,
\* boundaries included, and give the same pair.
C2_HeuristicTable ==
    (handler = "check-eligibility" /\ CreditScore.t = "number") =>
        LET n == CreditScore.n
        IN  /\ parseApprovalProbability(CreditScore) = TableProbability(n)
            /\ parseRiskLevel(CreditScore) = TableRisk(n)
            /\ catchApprovalProbability(CreditScore) = TableProbability(n)
            /\ catchRiskLevel(CreditScore) = TableRisk(n)
            /\ (Done /\ Has(Response.body, "analysis")
                     /\ (EligibilityCallFailed
                         \/ (EligibilityReplied /\ Reply.t = "string"
                             /\ Reply.s \in {<<"not", "json">>, <<"{">>, <<"80", ",">>}))
                  => PerTable(Get(Response.body, "analysis")))

C2_Witness ==
    /\ handler = "check-eligibility" /\ Done
    /\ CreditScore = Num(750)
    /\ EligibilityReplied /\ Reply = Str(<<"not", "json">>)
    /\ Get(Get(Response.body, "analysis"), "approvalProbability") = Num(90)
    /\ Get(Get(Response.body, "analysis"), "riskLevel") = Str(<<"Low">>)

\* C3: a document request without a file is answered 400 with success =
\* false, and no call to the document-analysis service is made at any point
\* of the request.
C3_NoFileNoCall ==
    (handler = "analyze-document" /\ req.file = Undefined) =>
        /\ outbound = <<>>
        /\ settled = <<>>
        /\ Done
        /\ Response.status = 400
        /\ Get(Response.body, "success") = Bool(FALSE)

C3_Witness ==
    /\ handler = "analyze-document" /\ req.file = Undefined
    /\ Done /\ Response.status = 400 /\ outbound = <<>>

\* C4: after a successful chat call the analysis of the eligibility response
\* has all four fields, whatever the reply text.
C4_AlwaysPopulated ==
    (EligibilityReplied /\ Done /\ Reply.t = "string") =>
        LET a == Get(Response.body, "analysis")
        IN  /\ Has(a, "approvalProbability")
            /\ Has(a, "riskLevel")
            /\ Has(a, "recommendations")
            /\ Has(a, "suitableBanks")

\* C5: when the reply text is not JSON, the analysis is the table's pair for
\* the credit score, the reply text itself as recommendations, and the three
\* default banks in order; "not json" with 720 gives (75, Low, "not json").
C5_NotJsonFallback ==
    (EligibilityReplied /\ Done /\ Reply.t = "string" /\ ~JSONparse(Reply).ok) =>
        LET a == Get(Response.body, "analysis")
        IN  /\ DOMAIN a.props = {Key("approvalProbability"), Key("riskLevel"),
                                 Key("recommendations"), Key("suitableBanks")}
            /\ PerTable(a)
            /\ Get(a, "recommendations") = Reply
            /\ Get(a, "suitableBanks") = ThreeBanks
            /\ Get(Response.body, "aiPowered") = Bool(TRUE)

\* C5, on texts that are not JSON by inspection.
C5_Examples ==
    (EligibilityReplied /\ Done /\ Reply.t = "string"
        /\ Reply.s \in {<<"not", "json">>, <<"{">>, <<"[", "80", ",", "]">>,
                        <<"Approval", "probability", ":", "80">>, <<>>}) =>
        /\ ~JSONparse(Reply).ok
        /\ Get(Get(Response.body, "analysis"), "recommendations") = Reply
        /\ (CreditScore = Num(720) =>
               Get(Response.body, "analysis") =
                   Literal([approvalProbability |-> Num(75),
                            riskLevel           |-> Str(<<"Low">>),
                            recommendations     |-> Reply,
                            suitableBanks       |-> ThreeBanks]))

\* C5: both forms together: whenever the reply text fails JSON decoding the
\* analysis is the heuristic pair, the raw reply text and the three banks.
C5_Theorem == C5_NotJsonFallback /\ C5_Examples

C5_Witness ==
    /\ EligibilityReplied /\ Done
    /\ Reply = Str(<<"not", "json">>)
    /\ CreditScore = Num(720)
    /\ Get(Get(Response.body, "analysis"), "recommendations") = Str(<<"not", "json">>)

\* A handler ended in its catch block: the awaited call was rejected, or the
\* code after it threw.
Degraded ==
    /\ Done /\ settled # <<>>
    /\ \/ ~LastCall.ok
       \/ /\ handler \in {"check-eligibility", "loan-recommendations"}
          /\ LastCall.val.choices = <<>>

\* The result a response carries, by operation.
FullyFormed(body) ==
    CASE handler = "check-eligibility" ->
           LET a == Get(body, "analysis")
           IN  /\ Has(a, "approvalProbability") /\ Has(a, "riskLevel")
               /\ Has(a, "recommendations") /\ Has(a, "suitableBanks")
      [] handler = "analyze-document" ->
           LET d == Get(body, "data")
           IN  /\ Has(d, "documentType") /\ Has(d, "pages") /\ Has(d, "text")
               /\ Has(d, "keyValuePairs") /\ Has(d, "tables")
      [] handler = "loan-recommendations" ->
           /\ Get(body, "recommendations").t = "array"
           /\ \A i \in 1..Len(Get(body, "recommendations").items) :
                 LET r == Get(body, "recommendations").items[i]
                 IN  /\ Has(r, "loanType") /\ Has(r, "reason")
                     /\ Has(r, "amountRange") /\ Has(r, "benefits")

\* C6: each operation, on any error of the call or of the normalization,
\* answers 200 with aiPowered = false, an error field with the failure's
\* description, and a fully-formed result of its result type.
C6_DegradedResponse ==
    Degraded =>
        /\ Response.status = 200
        /\ Get(Response.body, "aiPowered") = Bool(FALSE)
        /\ Has(Response.body, "error")
        /\ Get(Response.body, "error").t = "string"
        /\ FullyFormed(Response.body)

\* C7: an eligibility request without a creditScore never gets a synthesized
\* analysis with approvalProbability 35 and riskLevel High.
C7_NoSilentDefault ==
    (handler = "check-eligibility" /\ Done /\ CreditScore = Undefined
        /\ (EligibilityCallFailed
            \/ (EligibilityReplied /\ Reply.t = "string" /\ ~JSONparse(Reply).ok))) =>
        LET a == Get(Response.body, "analysis")
        IN  ~(/\ Get(a, "approvalProbability") = Num(35)
              /\ Get(a, "riskLevel") = Str(<<"High">>))

\* A document analysis succeeded.
DocumentAnalyzed ==
    /\ handler = "analyze-document" /\ Done
    /\ settled # <<>> /\ LastCall.op = "pollUntilDone" /\ LastCall.ok

Result == LastCall.val
Data   == Get(Response.body, "data")

\* The content of pair.key / pair.value, the empty string when there is none.
ContentOrEmpty(pair, part) ==
    IF Has(pair, part) /\ Has(pair.props[Key(part)], "content")
    THEN pair.props[Key(part)].props[Key("content")]
    ELSE Str(<<>>)

\* C8: data.pages is the number of pages of the result (0 without pages), and
\* data.keyValuePairs is the first min(10, n) of the n pairs, in order, each as
\* {key, value, confidence}, a missing content "" and a missing confidence 0.
C8_PagesAndPairs ==
    DocumentAnalyzed =>
        LET in  == IF Has(Result, "keyValuePairs")
                   THEN Result.props[Key("keyValuePairs")].items ELSE <<>>
            out == Get(Data, "keyValuePairs")
        IN  /\ Get(Data, "pages") =
                 Num(IF Has(Result, "pages") THEN Len(Result.props[Key("pages")].items)
                     ELSE 0)
            /\ out.t = "array"
            /\ Len(out.items) = Min(10, Len(in))
            /\ \A i \in 1..Len(out.items) :
                 out.items[i] =
                     Literal([key        |-> ContentOrEmpty(in[i], "key"),
                              value      |-> ContentOrEmpty(in[i], "value"),
                              confidence |-> IF Has(in[i], "confidence")
                                             THEN in[i].props[Key("confidence")]
                                             ELSE Num(0)])

C8_Witness ==
    /\ DocumentAnalyzed
    /\ Has(Result, "pages") /\ Len(Result.props[Key("pages")].items) = 3
    /\ Has(Result, "keyValuePairs")
    /\ Len(Result.props[Key("keyValuePairs")].items) = 12
    /\ ~Has(Result.props[Key("keyValuePairs")].items[4], "key")
    /\ Get(Data, "pages") = Num(3)
    /\ Len(Get(Data, "keyValuePairs").items) = 10
    /\ Get(Get(Data, "keyValuePairs").items[4], "key") = Str(<<>>)
    /\ Get(Get(Data, "keyValuePairs").items[10], "key") = Str(<<"key", "10">>)

\* C9: data.text is the first 1000 characters of the content when it is longer
\* (exactly 1000 then), the whole content when it is not, "" without content.
C9_TextPrefix ==
    DocumentAnalyzed =>
        LET text == Get(Data, "text")
        IN  /\ text.t = "string"
            /\ Len(text.s) <= 1000
            /\ IF ~Has(Result, "content") THEN text = Str(<<>>)
               ELSE LET content == Result.props[Key("content")].s
                    IN  /\ Len(content) > 1000 =>
                              /\ Len(text.s) = 1000
                              /\ \A i \in 1..1000 : text.s[i] = content[i]
                        /\ Len(content) <= 1000 => text.s = content

C9_Witness ==
    /\ DocumentAnalyzed
    /\ Has(Result, "content") /\ Len(Result.props[Key("content")].s) = 1002
    /\ Len(Get(Data, "text").s) = 1000

\* The request passed its handler's precondition (a document request needs a
\* file; the other two have none).
PassedPrecondition == handler # "none" /\ ~(handler = "analyze-document" /\ ~Truthy(req.file))

ServiceOf(h) == IF h = "analyze-document" THEN "documentIntelligence" ELSE "openai"

\* C10: a request that passes its precondition starts exactly one call, to the
\* one service of its operation; the response is sent only once that call has
\* completed or failed; a failed call is followed by no other call.
C10_SingleAttempt ==
    /\ Len(outbound) <= 1
    /\ Len(responses) <= 1
    /\ PassedPrecondition =>
          /\ Len(outbound) = 1
          /\ outbound[1].service = ServiceOf(handler)
          /\ responses # <<>> =>
                /\ pc = "done" /\ settled # <<>>
                /\ ~LastCall.ok \/ LastCall.op \in {"getChatCompletions", "pollUntilDone"}
          /\ \A i \in 1..Len(settled) :
                ~settled[i].ok => (i = Len(settled) /\ pc = "done" /\ Len(responses) = 1)

C10_Witness ==
    /\ handler = "analyze-document" /\ Done
    /\ Len(settled) = 2 /\ ~LastCall.ok
    /\ Len(outbound) = 1

=============================================================================
